---- MODULE Spec2Model ----
(***************************************************************************)
(* Model of greykite/sklearn/estimator/silverkite_diagnostics.py:          *)
(* SilverkiteDiagnostics, the decomposition of a fitted additive model     *)
(* into components (get_silverkite_components), the panel layout of the    *)
(* component plot (plot_silverkite_components) and the two caches of the   *)
(* object (components, model_summary).                                     *)
(*                                                                         *)
(* A data frame is a record of its row count and its columns.  A feature   *)
(* column name is the set of the ":"-joined terms it is made of, so that   *)
(* re.search(pattern, name) is "some term of the name matches".  Numbers   *)
(* are integers: floating-point rounding is outside this model.            *)
(***************************************************************************)
EXTENDS Integers, Sequences, FiniteSets, TLC

\* ---------------------------------------------------------------- bounds
MaxCols == 2        \* columns of a feature matrix
MaxRows == 2        \* rows of a frame
MaxNames == 2       \* length of the names list given to the plot

\* ------------------------------------------------- the naming convention
\* (greykite.common.constants and greykite.common.python_utils are not in
\* src/: modelled from the specification's description of the patterns)

\* terms of a design-matrix column name
TrendTerms == {"ct1", "changepoint0_T2"}
SeasonalityTerms == {"sin1_daily", "sin1_weekly"}
LagTerms == {"y_lag1", "x_lag1"}
EventTerms == {"events_h"}
PatternTerms == TrendTerms \cup SeasonalityTerms \cup LagTerms \cup EventTerms

\* the column names of a design matrix: the intercept, the main effects {a}
\* and interactions {a, b}
Interactions ==
    {{"ct1", "sin1_daily"}, {"changepoint0_T2", "y_lag1"}, {"events_h", "ct1"},
     {"x_lag1", "sin1_daily"}, {"sin1_daily", "sin1_weekly"}}
ColNames == {{"Intercept"}} \cup {{a} : a \in PatternTerms} \cup Interactions

\* a pattern is the set of terms its regular expression finds
TREND_REGEX == TrendTerms
SEASONALITY_REGEX == SeasonalityTerms
LAG_REGEX == LagTerms
EVENT_REGEX == EventTerms
NoPattern == {}

\* re.search(pattern, name)
Search(pattern, name) == name \cap pattern # {}

\* get_pattern_cols(cols, pos_pattern, neg_pattern): the names that match
\* pos_pattern and do not match neg_pattern
get_pattern_cols(cols, pos_pattern, neg_pattern) ==
    {c \in cols : Search(pos_pattern, c) /\ ~Search(neg_pattern, c)}

\* SilverkiteComponentsEnum: the member names in their order, and the terms
\* that contain a member's ylabel
SeasKeys == <<"DAILY_SEASONALITY", "WEEKLY_SEASONALITY", "MONTHLY_SEASONALITY",
              "QUARTERLY_SEASONALITY", "YEARLY_SEASONALITY">>
YLabelPattern(seas) ==
    CASE seas = "DAILY_SEASONALITY" -> {"sin1_daily"}
      [] seas = "WEEKLY_SEASONALITY" -> {"sin1_weekly"}
      [] OTHER -> {}

\* get_trend_changepoint_dates_from_cols(trend_cols): the dates written in
\* the changepoint terms of the trend columns
ChangepointDate(term) == IF term = "changepoint0_T2" THEN {2} ELSE {}
get_trend_changepoint_dates_from_cols(trend_cols) ==
    UNION {ChangepointDate(term) : term \in UNION trend_cols}

\* `value_col in lag_col`: Python's substring test on the whole column name
\* ("y" is a substring of "daily" and of "weekly")
TermsContaining(value_col) ==
    CASE value_col = "y" -> {"y_lag1", "sin1_daily", "sin1_weekly"}
      [] value_col = "x" -> {"x_lag1"}
      [] OTHER -> {}
StrIn(value_col, name) == name \cap TermsContaining(value_col) # {}

\* ------------------------------------------------------------ data frames
\* Python's None where a table, a frame or a list is expected
None == [none |-> TRUE]
IsNone(v) == v = None

\* a feature matrix: [none, nrows, columns, val], val[c][i] the cell of
\* column c at row i
FeatureFrame(n, cols, val) == [none |-> FALSE, nrows |-> n, columns |-> cols, val |-> val]
\* DataFrame.empty: no rows or no columns
IsEmpty(fdf) == fdf.nrows = 0 \/ fdf.columns = {}

\* the frame of the observations: [none, nrows, col], col[name][i] the cell
\* of column name at row i
DataFrame(m, col) == [none |-> FALSE, nrows |-> m, col |-> col]

\* a components table: a sequence of columns [name, vals] in column order
Columns(t) == [i \in 1..Len(t) |-> t[i].name]
ColumnSet(t) == {t[i].name : i \in 1..Len(t)}
Col(t, name) == t[CHOOSE i \in 1..Len(t) : t[i].name = name].vals
\* t[name] = vals: replaces the column of that name, or appends a new one
SetColumn(t, name, vals) ==
    IF name \in ColumnSet(t)
    THEN [i \in 1..Len(t) |-> IF t[i].name = name THEN [name |-> name, vals |-> vals] ELSE t[i]]
    ELSE Append(t, [name |-> name, vals |-> vals])
\* t.drop(name, axis=1)
DropColumn(t, name) == SelectSeq(t, LAMBDA c : c.name # name)

\* feature_df[cols].sum(axis=1)
RECURSIVE SumAt(_, _, _)
SumAt(fdf, cols, i) ==
    IF cols = {} THEN 0
    ELSE LET c == CHOOSE c \in cols : TRUE
         IN fdf.val[c][i] + SumAt(fdf, cols \ {c}, i)
RowSum(fdf, cols) == [i \in 1..fdf.nrows |-> SumAt(fdf, cols, i)]

\* ------------------------------------------- get_silverkite_components
TimeColumns == {"ts"}
ValueColumns == {"y", "x"}

\* the trend pattern applied without its exclusion pattern
TrendCols_NoExclusion(feature_cols) ==
    get_pattern_cols(feature_cols, TREND_REGEX, NoPattern)
\* line 249: the trend columns, interaction terms with a seasonality or a
\* lag excluded
TrendCols(feature_cols) ==
    get_pattern_cols(feature_cols, TREND_REGEX, SEASONALITY_REGEX \cup LAG_REGEX)
\* line 254
LagCols(feature_cols) == get_pattern_cols(feature_cols, LAG_REGEX, NoPattern)
\* line 256
ArCols(lag_cols, value_col) == {lag_col \in lag_cols : StrIn(value_col, lag_col)}
\* every lag column taken as a lagged regressor
LaggedRegressorCols_All(lag_cols, value_col) == lag_cols
\* line 259
LaggedRegressorCols(lag_cols, value_col) ==
    {lag_col \in lag_cols : ~StrIn(value_col, lag_col)}
\* line 264
SeasCols(feature_cols) == get_pattern_cols(feature_cols, SEASONALITY_REGEX, NoPattern)
\* lines 267-268
SeasPatternCols(seas_cols, seas) == get_pattern_cols(seas_cols, YLabelPattern(seas), NoPattern)
\* line 273
EventCols(feature_cols) == get_pattern_cols(feature_cols, EVENT_REGEX, NoPattern)

\* the sum assigned without the `if cols:` test: a zero column when empty
SumInto_ZeroFill(components, name, feature_df, cols) ==
    SetColumn(components, name, RowSum(feature_df, cols))
\* `if cols: components[name] = feature_df[cols].sum(axis=1)`
SumInto(components, name, feature_df, cols) ==
    IF cols # {} THEN SetColumn(components, name, RowSum(feature_df, cols))
    ELSE components

\* lines 253-261
WithLags(components, feature_df, value_col) ==
    LET lag_cols == LagCols(feature_df.columns)
        ar == SumInto(components, "autoregression", feature_df, ArCols(lag_cols, value_col))
    IN IF lag_cols # {}
       THEN SumInto(ar, "lagged_regressor", feature_df, LaggedRegressorCols(lag_cols, value_col))
       ELSE components

\* lines 264-270: the loop over the members of the enum, from member k on
RECURSIVE WithSeasonalities(_, _, _)
WithSeasonalities(components, feature_df, k) ==
    IF k > Len(SeasKeys) THEN components
    ELSE WithSeasonalities(
            SumInto(components, SeasKeys[k], feature_df,
                    SeasPatternCols(SeasCols(feature_df.columns), SeasKeys[k])),
            feature_df, k + 1)

\* the residual taken against the classified columns only
Residual_ClassifiedOnly(df, value_col, feature_df) ==
    LET fc == feature_df.columns
        classified == TrendCols(fc) \cup LagCols(fc) \cup EventCols(fc) \cup
                      UNION {SeasPatternCols(SeasCols(fc), SeasKeys[k]) : k \in 1..Len(SeasKeys)}
    IN [i \in 1..df.nrows |-> df.col[value_col][i] - SumAt(feature_df, classified, i)]
\* line 278
Residual(df, value_col, feature_df) ==
    [i \in 1..df.nrows |-> df.col[value_col][i] - SumAt(feature_df, feature_df.columns, i)]

\* the indicator appended without the `if changepoint_dates:` test
WithChangepoints_NoDatesTest(components, time_col, trend_cols) ==
    LET changepoint_dates == get_trend_changepoint_dates_from_cols(trend_cols)
        ts == Col(components, time_col)
    IN IF trend_cols # {}
       THEN SetColumn(components, "trend_changepoints",
                      [i \in 1..Len(ts) |-> IF ts[i] \in changepoint_dates THEN 1 ELSE 0])
       ELSE components
\* lines 282-287
WithChangepoints(components, time_col, trend_cols) ==
    LET changepoint_dates == get_trend_changepoint_dates_from_cols(trend_cols)
        ts == Col(components, time_col)
    IN IF trend_cols # {} /\ changepoint_dates # {}
       THEN SetColumn(components, "trend_changepoints",
                      [i \in 1..Len(ts) |-> IF ts[i] \in changepoint_dates THEN 1 ELSE 0])
       ELSE components

\* lines 245-289: the table of a call that passed the checks
ComponentsTable(df, time_col, value_col, feature_df) ==
    LET feature_cols == feature_df.columns
        c0 == <<[name |-> time_col, vals |-> df.col[time_col]],
                [name |-> value_col, vals |-> df.col[value_col]]>>
        c1 == SumInto(c0, "trend", feature_df, TrendCols(feature_cols))
        c2 == WithLags(c1, feature_df, value_col)
        c3 == WithSeasonalities(c2, feature_df, 1)
        c4 == SumInto(c3, "events", feature_df, EventCols(feature_cols))
        c5 == SetColumn(c4, "residual", Residual(df, value_col, feature_df))
    IN WithChangepoints(c5, time_col, TrendCols(feature_cols))

\* what a call produces: the exception it raises ("" when it returns), the
\* value it returns and the warnings it emits
Raise(exc) == [raised |-> exc, value |-> None, warned |-> {}]
Return(value) == [raised |-> "", value |-> value, warned |-> {}]
EmptyError == "ValueError: feature_df must be non-empty"
RowsError == "ValueError: df and feature_df must have same number of rows."
KeyError == "KeyError"

\* the two input checks made in the other order
GetSilverkiteComponents_RowsFirst(df, time_col, value_col, feature_df) ==
    IF ~IsNone(feature_df) /\ df.nrows # feature_df.nrows THEN Raise(RowsError)
    ELSE IF IsNone(feature_df) \/ IsEmpty(feature_df) THEN Raise(EmptyError)
    ELSE IF {time_col, value_col} \subseteq DOMAIN df.col
         THEN Return([none |-> FALSE, cols |-> ComponentsTable(df, time_col, value_col, feature_df)])
         ELSE Raise(KeyError)
\* lines 239-289
GetSilverkiteComponents(df, time_col, value_col, feature_df) ==
    IF IsNone(feature_df) \/ IsEmpty(feature_df) THEN Raise(EmptyError)
    ELSE IF df.nrows # feature_df.nrows THEN Raise(RowsError)
    ELSE IF {time_col, value_col} \subseteq DOMAIN df.col
         THEN Return([none |-> FALSE, cols |-> ComponentsTable(df, time_col, value_col, feature_df)])
         ELSE Raise(KeyError)

\* ------------------------------------------ plot_silverkite_components
\* a names argument that is a list
NamesList(list) == [none |-> FALSE, list |-> list]
Set(list) == {list[i] : i \in 1..Len(list)}
NoMatchError == "ValueError: None of the provided components have been specified in the model."
\* line 391: the height of one panel
PanelHeight == 350
\* line 395: `"SEASONALITY" in name`, for the names a table or a names list holds
HasSeasonality(name) == name \in Set(SeasKeys)

\* line 368: the timestamps of the rows the indicator marks
ChangepointTimes(components, time_col) ==
    {Col(components, time_col)[i] :
        i \in {j \in 1..Len(Col(components, time_col)) :
                  Col(components, "trend_changepoints")[j] = 1}}

\* the columns kept whatever the names, the time column included
NamesKeptAll(columns) == columns
\* line 373: every column but the first
NamesKeptDefault(columns) == Tail(columns)
\* line 376: the columns that are in names, in the order of the columns
NamesKept(columns, names) == SelectSeq(columns, LAMBDA component : component \in Set(names))
\* line 377
NamesRemoved(columns, names) == Set(names) \ Set(columns)
\* lines 384-385
ValueColFirst(names_kept, value_col) ==
    IF names_kept[1] # value_col THEN <<value_col>> \o names_kept ELSE names_kept

\* lines 387-432: the figure, one panel per kept name; a seasonality panel is
\* regrouped on its own axis, the trend panel carries the changepoint markers
Figure(names_kept, trend_changepoints) ==
    [none |-> FALSE,
     panels |-> names_kept,
     height |-> PanelHeight * Len(names_kept),
     regrouped |-> {i \in 1..Len(names_kept) : HasSeasonality(names_kept[i])},
     markers |-> IF ~IsNone(trend_changepoints) /\ "trend" \in Set(names_kept)
                 THEN [row |-> CHOOSE i \in 1..Len(names_kept) : names_kept[i] = "trend",
                       at |-> trend_changepoints.times]
                 ELSE None]

\* a missing requested name raises instead of warning
PlotSilverkiteComponents_Strict(components_in, names) ==
    LET cols_in == Columns(components_in.cols)
        components == DropColumn(components_in.cols, "trend_changepoints")
        columns == Columns(components)
        trend_changepoints ==
            IF "trend_changepoints" \in Set(cols_in)
            THEN [none |-> FALSE, times |-> ChangepointTimes(components_in.cols, cols_in[1])]
            ELSE None
    IN IF IsNone(names)
       THEN Return(Figure(NamesKeptDefault(columns), trend_changepoints))
       ELSE IF NamesKept(columns, names.list) = <<>> \/ NamesRemoved(columns, names.list) # {}
            THEN Raise(NoMatchError)
            ELSE Return(Figure(ValueColFirst(NamesKept(columns, names.list), cols_in[2]),
                               trend_changepoints))
\* lines 366-432
PlotSilverkiteComponents(components_in, names) ==
    LET cols_in == Columns(components_in.cols)
        time_col == cols_in[1]
        value_col == cols_in[2]
        components == DropColumn(components_in.cols, "trend_changepoints")
        columns == Columns(components)
        trend_changepoints ==
            IF "trend_changepoints" \in Set(cols_in)
            THEN [none |-> FALSE, times |-> ChangepointTimes(components_in.cols, time_col)]
            ELSE None
    IN IF IsNone(names)
       THEN Return(Figure(NamesKeptDefault(columns), trend_changepoints))
       ELSE LET names_kept == NamesKept(columns, names.list)
                names_removed == NamesRemoved(columns, names.list)
            IN IF names_kept = <<>> THEN Raise(NoMatchError)
               ELSE [raised |-> "",
                     value |-> Figure(ValueColFirst(names_kept, value_col), trend_changepoints),
                     warned |-> IF names_removed # {} THEN {names_removed} ELSE {}]

\* --------------------------------------------- summary, plot_components
\* a fitted model bundle: the design matrix x_mat, the rows used in the fit
\* df_dropna, the algorithm's name and the fitted ml_model [has_coef, coef,
\* intercept], has_coef being hasattr(ml_model, "coef_")
ModelDict(x_mat, df_dropna, fit_algorithm, ml_model) ==
    [none |-> FALSE, x_mat |-> x_mat, df_dropna |-> df_dropna,
     fit_algorithm |-> fit_algorithm, ml_model |-> ml_model]

\* lines 114-121: ModelSummary(...), kept as the arguments that identify it
\* (greykite.algo.common.model_summary is not in src/)
ModelSummary(model_dict, pred_category) ==
    [none |-> FALSE, pred_cols |-> model_dict.x_mat.columns,
     pred_category |-> pred_category, fit_algorithm |-> model_dict.fit_algorithm]

\* lines 112-124: the new value of self.model_summary, which is also returned
Summary(model_dict, pred_category) ==
    IF ~IsNone(model_dict) THEN ModelSummary(model_dict, pred_category) ELSE None

\* lines 155-166: x_mat_weighted, the columns times their coefficients with a
\* non-zero intercept added to the Intercept column, which is made if missing
XMatWeighted(model_dict) ==
    LET x_mat == model_dict.x_mat
        ml_model_coef == model_dict.ml_model.coef
        ml_model_intercept == model_dict.ml_model.intercept
        data_len == x_mat.nrows
        ml_cols == x_mat.columns
        product == [c \in ml_cols |-> [i \in 1..data_len |-> ml_model_coef[c] * x_mat.val[c][i]]]
    IN IF ml_model_intercept # 0
       THEN IF {"Intercept"} \in ml_cols
            THEN FeatureFrame(data_len, ml_cols,
                    [product EXCEPT ![{"Intercept"}] =
                        [i \in 1..data_len |-> product[{"Intercept"}][i] + ml_model_intercept]])
            ELSE FeatureFrame(data_len, ml_cols \cup {{"Intercept"}},
                    [c \in ml_cols \cup {{"Intercept"}} |->
                        IF c = {"Intercept"} THEN [i \in 1..data_len |-> ml_model_intercept]
                        ELSE product[c]])
       ELSE FeatureFrame(data_len, ml_cols, product)

SetParamsError == "NotImplementedError: Call self.set_params before calling plot_components."
LinearOnlyError == "NotImplementedError: Component plot has only been implemented for additive linear models."

\* the cache assigned only once the figure is made
PlotComponents_CacheAfterPlot(model_dict, names, self_time_col, self_value_col, self_components) ==
    IF IsNone(model_dict) THEN [ret |-> Raise(SetParamsError), components |-> self_components]
    ELSE IF ~model_dict.ml_model.has_coef
    THEN [ret |-> Raise(LinearOnlyError), components |-> self_components]
    ELSE LET got == GetSilverkiteComponents(model_dict.df_dropna, self_time_col,
                                            self_value_col, XMatWeighted(model_dict))
             fig == PlotSilverkiteComponents(got.value, names)
         IN IF got.raised # "" THEN [ret |-> got, components |-> self_components]
            ELSE [ret |-> fig,
                  components |-> IF fig.raised = "" THEN got.value ELSE self_components]
\* lines 146-177: what the call produces and the new value of self.components
PlotComponents(model_dict, names, self_time_col, self_value_col, self_components) ==
    IF IsNone(model_dict) THEN [ret |-> Raise(SetParamsError), components |-> self_components]
    ELSE IF ~model_dict.ml_model.has_coef
    THEN [ret |-> Raise(LinearOnlyError), components |-> self_components]
    ELSE LET got == GetSilverkiteComponents(model_dict.df_dropna, self_time_col,
                                            self_value_col, XMatWeighted(model_dict))
         IN IF got.raised # "" THEN [ret |-> got, components |-> self_components]
            ELSE [ret |-> PlotSilverkiteComponents(got.value, names),
                  components |-> got.value]

\* ---------------------------------------------------------------- state
VARIABLES
    time_col,        \* self.time_col
    value_col,       \* self.value_col
    pred_category,   \* self.pred_category
    components,      \* self.components, the cached components table
    model_summary,   \* self.model_summary
    args,            \* the arguments of the call under way or last made
    ret,             \* what the last call produced
    pc               \* "call": args wait to be applied; "done": they were

vars == <<time_col, value_col, pred_category, components, model_summary, args, ret, pc>>
self == <<time_col, value_col, pred_category, components, model_summary>>

\* an attribute that holds None where a string is expected
NoCol == "None"
NoRet == [raised |-> "", value |-> None, warned |-> {}]

\* lines 65-73: __init__
InitObject ==
    /\ time_col = NoCol
    /\ value_col = NoCol
    /\ pred_category = None
    /\ components = None
    /\ model_summary = None

\* --------------------------------------------------------------- inputs
\* the subsets of S of at most k elements
RECURSIVE SubsetsUpTo(_, _)
SubsetsUpTo(S, k) ==
    IF k = 0 THEN {{}}
    ELSE LET P == SubsetsUpTo(S, k - 1) IN P \cup {p \cup {x} : p \in P, x \in S}

\* a weighted feature column is a coefficient times a regressor that grows
\* with the row
Weights == {-1, 1}
ColumnValues(n) == {[i \in 1..n |-> w * i] : w \in Weights}
FeatureFrames ==
    {None} \cup
    UNION {UNION {{FeatureFrame(n, cols, val) : val \in [cols -> ColumnValues(n)]}
                  : cols \in SubsetsUpTo(ColNames, MaxCols)}
           : n \in 0..MaxRows}

\* the observations: the time axis 1..m, the target y and a regressor x
Baselines == {0, 3}
DataFrames ==
    {DataFrame(m, [ts |-> [i \in 1..m |-> i],
                   y |-> [i \in 1..m |-> b + i],
                   x |-> [i \in 1..m |-> 2 * i]])
        : m \in 1..MaxRows, b \in Baselines}

DecomposeArgs ==
    {[op |-> "get_silverkite_components", df |-> df, time_col |-> tc,
      value_col |-> vc, feature_df |-> fdf]
        : df \in DataFrames, tc \in TimeColumns, vc \in ValueColumns, fdf \in FeatureFrames}

\* the tables given to the plot: the decompositions of the target y over the
\* feature matrices of unit coefficients
RenderTables ==
    {GetSilverkiteComponents(
            DataFrame(MaxRows, [ts |-> [i \in 1..MaxRows |-> i],
                                y |-> [i \in 1..MaxRows |-> 3 + i],
                                x |-> [i \in 1..MaxRows |-> 2 * i]]),
            "ts", "y",
            FeatureFrame(MaxRows, cols, [c \in cols |-> [i \in 1..MaxRows |-> i]])).value
        : cols \in SubsetsUpTo(ColNames, MaxCols) \ {{}}}

\* the names lists: None, and the lists of at most MaxNames requested names
RequestedNames == {"ts", "y", "trend", "DAILY_SEASONALITY", "trend_changepoints", "bogus"}
RECURSIVE ListsUpTo(_, _)
ListsUpTo(S, k) ==
    IF k = 0 THEN {<<>>}
    ELSE LET L == ListsUpTo(S, k - 1) IN L \cup {Append(l, x) : l \in L, x \in S}
NamesArgs == {None} \cup {NamesList(l) : l \in ListsUpTo(RequestedNames, MaxNames)}

RenderArgs ==
    {[op |-> "plot_silverkite_components", components |-> t, names |-> names]
        : t \in RenderTables, names \in NamesArgs}

\* the model bundles given to one object: None, a tree model without coef_,
\* and linear models over a few design matrices, with and without an
\* intercept, whose df_dropna has the rows of x_mat or one row less
ObjectColumns == {{}, {{"ct1"}}, {{"Intercept"}, {"changepoint0_T2"}}}
ObjectFrame(m) ==
    DataFrame(m, [ts |-> [i \in 1..m |-> i], y |-> [i \in 1..m |-> 3 + i],
                  x |-> [i \in 1..m |-> 2 * i]])
ObjectXMat(cols) == FeatureFrame(MaxRows, cols, [c \in cols |-> [i \in 1..MaxRows |-> i]])
ModelDicts ==
    {None,
     ModelDict(ObjectXMat({{"ct1"}}), ObjectFrame(MaxRows), "rf",
               [has_coef |-> FALSE, coef |-> <<>>, intercept |-> 0])}
    \cup
    {ModelDict(ObjectXMat(cols), ObjectFrame(m), "linear",
               [has_coef |-> TRUE, coef |-> [c \in cols |-> 2], intercept |-> b])
        : cols \in ObjectColumns, m \in {MaxRows - 1, MaxRows}, b \in {0, 5}}
ObjectNames == {None, NamesList(<<"trend">>), NamesList(<<"bogus">>)}
PredCategories == {None, [none |-> FALSE, trend |-> {{"ct1"}, {"changepoint0_T2"}}]}

\* -------------------------------------------------------------- actions
\* set_params(pred_category, time_col, value_col), lines 75-92
SetParams ==
    \E pcat \in PredCategories, tc \in TimeColumns, vc \in {"y"} :
        /\ pred_category' = pcat
        /\ time_col' = tc
        /\ value_col' = vc
        /\ args' = [op |-> "set_params", pred_category |-> pcat, time_col |-> tc, value_col |-> vc]
        /\ ret' = Return(None)
        /\ UNCHANGED <<components, model_summary, pc>>

\* summary(model_dict), lines 94-124
CallSummary ==
    \E model_dict \in ModelDicts :
        /\ model_summary' = Summary(model_dict, pred_category)
        /\ args' = [op |-> "summary", model_dict |-> model_dict]
        /\ ret' = Return(Summary(model_dict, pred_category))
        /\ UNCHANGED <<time_col, value_col, pred_category, components, pc>>

\* plot_components(model_dict, names), lines 126-177
CallPlotComponents ==
    \E model_dict \in ModelDicts, names \in ObjectNames :
        LET got == PlotComponents(model_dict, names, time_col, value_col, components)
        IN /\ components' = got.components
           /\ ret' = got.ret
           /\ args' = [op |-> "plot_components", model_dict |-> model_dict, names |-> names]
           /\ UNCHANGED <<time_col, value_col, pred_category, model_summary, pc>>

\* one object and any sequence of calls on it
Init == InitObject /\ args = [op |-> "__init__"] /\ ret = NoRet /\ pc = "done"
Next == SetParams \/ CallSummary \/ CallPlotComponents
Spec == Init /\ [][Next]_vars

\* get_silverkite_components(df, time_col, value_col, feature_df), lines
\* 179-289: reads and writes no attribute of the object
CallGetSilverkiteComponents ==
    /\ pc = "call"
    /\ args.op = "get_silverkite_components"
    /\ ret' = GetSilverkiteComponents(args.df, args.time_col, args.value_col, args.feature_df)
    /\ pc' = "done"
    /\ UNCHANGED <<self, args>>

\* the decomposition applied to every bounded input
InitDecompose == InitObject /\ args \in DecomposeArgs /\ ret = NoRet /\ pc = "call"
NextDecompose == CallGetSilverkiteComponents
SpecDecompose == InitDecompose /\ [][NextDecompose]_vars

\* plot_silverkite_components(components, names, title), lines 330-432: reads
\* and writes no attribute of the object
CallPlotSilverkiteComponents ==
    /\ pc = "call"
    /\ args.op = "plot_silverkite_components"
    /\ ret' = PlotSilverkiteComponents(args.components, args.names)
    /\ pc' = "done"
    /\ UNCHANGED <<self, args>>

\* the plot applied to every bounded table and names list
InitRender == InitObject /\ args \in RenderArgs /\ ret = NoRet /\ pc = "call"
NextRender == CallPlotSilverkiteComponents
SpecRender == InitRender /\ [][NextRender]_vars

\* ------------------------------------------------ the decomposition claims
\* a finished call of get_silverkite_components, and one that returned a table
Decomposed == pc = "done" /\ args.op = "get_silverkite_components"
DecomposedOk == Decomposed /\ ret.raised = ""
Rows == 1..args.df.nrows
Target(i) == args.df.col[args.value_col][i]
FeatureCols == args.feature_df.columns
Feature(c, i) == args.feature_df.val[c][i]
RECURSIVE SumOver(_, _)
SumOver(S, i) ==
    IF S = {} THEN 0
    ELSE LET c == CHOOSE c \in S : TRUE IN Feature(c, i) + SumOver(S \ {c}, i)

\* the semantic component columns, and the sum at row i of those in table t
SemanticNames ==
    {"trend", "autoregression", "lagged_regressor", "events"} \cup
    {SeasKeys[k] : k \in 1..Len(SeasKeys)}
RECURSIVE SemanticSum(_, _, _)
SemanticSum(t, k, i) ==
    IF k > Len(t) THEN 0
    ELSE (IF t[k].name \in SemanticNames THEN t[k].vals[i] ELSE 0) + SemanticSum(t, k + 1, i)

\* the rule that classifies feature column c into a semantic component
ClassifiedAs(c, comp, vc) ==
    CASE comp = "trend" ->
            Search(TREND_REGEX, c) /\ ~Search(SEASONALITY_REGEX, c) /\ ~Search(LAG_REGEX, c)
      [] comp = "autoregression" -> Search(LAG_REGEX, c) /\ StrIn(vc, c)
      [] comp = "lagged_regressor" -> Search(LAG_REGEX, c) /\ ~StrIn(vc, c)
      [] comp = "events" -> Search(EVENT_REGEX, c)
      [] OTHER -> Search(SEASONALITY_REGEX, c) /\ Search(YLabelPattern(comp), c)

\* the categories whose pattern the name c matches
Categories(c) ==
    {cat \in {"trend"} : Search(TREND_REGEX, c)} \cup
    {cat \in {"lag"} : Search(LAG_REGEX, c)} \cup
    {cat \in {"events"} : Search(EVENT_REGEX, c)} \cup
    {cat \in {"seasonality"} : Search(SEASONALITY_REGEX, c)} \cup
    {SeasKeys[k] : k \in {j \in 1..Len(SeasKeys) :
                             Search(SEASONALITY_REGEX, c) /\ Search(YLabelPattern(SeasKeys[j]), c)}}
\* no name matches more than one category's pattern (a seasonality column
\* matches the seasonality pattern and at most one member's label)
PatternsExclusive ==
    \A c \in FeatureCols :
        \/ Cardinality(Categories(c)) <= 1
        \/ /\ Cardinality(Categories(c)) = 2
           /\ "seasonality" \in Categories(c)
           /\ Categories(c) \cap {"trend", "lag", "events"} = {}
\* the feature columns that no component sums
Unclassified == {c \in FeatureCols : \A comp \in SemanticNames : ~ClassifiedAs(c, comp, args.value_col)}

\* C1: at every row of a returned table, the sum of all the weighted feature
\* columns plus residual equals the target, however the columns were classified
C1_ResidualReconciles ==
    DecomposedOk =>
        \A i \in Rows : SumOver(FeatureCols, i) + Col(ret.value.cols, "residual")[i] = Target(i)
\* a returned table over a matrix with a classified and an unclassified column
C1_Witness ==
    /\ DecomposedOk
    /\ Unclassified # {} /\ Unclassified # FeatureCols
    /\ \E i \in Rows : Col(ret.value.cols, "residual")[i] # Target(i)

\* C2 as stated: with exclusive patterns, the semantic component columns plus
\* residual sum to the target at every row
C2_Original ==
    (DecomposedOk /\ PatternsExclusive) =>
        \A i \in Rows :
            SemanticSum(ret.value.cols, 1, i) + Col(ret.value.cols, "residual")[i] = Target(i)
\* C2 amended: with exclusive patterns, the semantic component columns plus
\* residual plus the feature columns that no component sums (the Intercept
\* column among them) sum to the target at every row
C2_ComponentsReconcile ==
    (DecomposedOk /\ PatternsExclusive) =>
        \A i \in Rows :
            SemanticSum(ret.value.cols, 1, i) + Col(ret.value.cols, "residual")[i]
                + SumOver(Unclassified, i) = Target(i)
\* a returned table with a semantic column over a matrix of exclusive names
\* that also has a column no component sums
C2_Witness ==
    /\ DecomposedOk /\ PatternsExclusive
    /\ ColumnSet(ret.value.cols) \cap SemanticNames # {}
    /\ Unclassified # {}
    /\ \E i \in Rows : SemanticSum(ret.value.cols, 1, i) # 0

\* C3: a semantic column is in the returned table if and only if some feature
\* column is classified into it
C3_SparseColumns ==
    DecomposedOk =>
        \A comp \in SemanticNames :
            comp \in ColumnSet(ret.value.cols)
                <=> \E c \in FeatureCols : ClassifiedAs(c, comp, args.value_col)
\* a returned table whose trend column is emitted although it is zero at every
\* row, and which has no events column
C3_Witness ==
    /\ DecomposedOk
    /\ "trend" \in ColumnSet(ret.value.cols)
    /\ \A i \in Rows : Col(ret.value.cols, "trend")[i] = 0
    /\ "events" \notin ColumnSet(ret.value.cols)

\* C4: a missing or empty feature matrix raises the empty-input error whatever
\* the row counts; a non-empty one raises the row-mismatch error when the row
\* counts differ and otherwise yields a table of as many rows as the input
C4_InputChecks ==
    Decomposed =>
        IF IsNone(args.feature_df) \/ IsEmpty(args.feature_df)
        THEN ret.raised = EmptyError /\ IsNone(ret.value)
        ELSE IF args.df.nrows # args.feature_df.nrows
        THEN ret.raised = RowsError /\ IsNone(ret.value)
        ELSE /\ ret.raised = ""
             /\ \A k \in 1..Len(ret.value.cols) : Len(ret.value.cols[k].vals) = args.df.nrows
\* an empty feature matrix whose row count also differs from the target's
C4_Witness ==
    /\ Decomposed
    /\ ~IsNone(args.feature_df)
    /\ args.feature_df.columns # {} /\ args.feature_df.nrows = 0
    /\ args.df.nrows # args.feature_df.nrows
    /\ ret.raised = EmptyError

\* C9: trend_changepoints is in the returned table if and only if a trend
\* column was produced and a changepoint date is extracted from the trend
\* column names; it is then the last column, after residual, holds only 0 and
\* 1, and is 1 exactly at the rows whose timestamp is an extracted date
C9_TrendChangepoints ==
    DecomposedOk =>
        LET t == ret.value.cols
            trend_names == {c \in FeatureCols : ClassifiedAs(c, "trend", args.value_col)}
            dates == get_trend_changepoint_dates_from_cols(trend_names)
        IN /\ "trend_changepoints" \in ColumnSet(t)
                <=> ("trend" \in ColumnSet(t) /\ dates # {})
           /\ "trend_changepoints" \in ColumnSet(t) =>
                /\ t[Len(t)].name = "trend_changepoints"
                /\ t[Len(t) - 1].name = "residual"
                /\ \A i \in Rows :
                      /\ t[Len(t)].vals[i] \in {0, 1}
                      /\ t[Len(t)].vals[i] = 1 <=> args.df.col[args.time_col][i] \in dates
\* a returned table whose indicator is 1 at one row and 0 at another
C9_Witness ==
    /\ DecomposedOk
    /\ "trend_changepoints" \in ColumnSet(ret.value.cols)
    /\ \E i, j \in Rows :
          /\ Col(ret.value.cols, "trend_changepoints")[i] = 1
          /\ Col(ret.value.cols, "trend_changepoints")[j] = 0

\* C10: the column sets summed into trend, autoregression and lagged_regressor
\* are pairwise disjoint; no trend column matches the seasonality or the lag
\* pattern; autoregression takes the lag columns that contain the target's
\* name and lagged_regressor the others, so the two partition the lag columns
C10_DisjointColumnSets ==
    Decomposed =>
        LET fc == IF IsNone(args.feature_df) THEN {} ELSE FeatureCols
            trend_cols == TrendCols(fc)
            lag_pattern == {c \in fc : Search(LAG_REGEX, c)}
            ar_cols == ArCols(LagCols(fc), args.value_col)
            lr_cols == LaggedRegressorCols(LagCols(fc), args.value_col)
        IN /\ trend_cols \cap ar_cols = {}
           /\ trend_cols \cap lr_cols = {}
           /\ ar_cols \cap lr_cols = {}
           /\ \A c \in trend_cols :
                 Search(TREND_REGEX, c) /\ ~Search(SEASONALITY_REGEX, c) /\ ~Search(LAG_REGEX, c)
           /\ ar_cols \cup lr_cols = lag_pattern
           /\ \A c \in lag_pattern : c \in ar_cols <=> StrIn(args.value_col, c)
\* a returned table over a matrix with a column that matches the trend and the
\* lag pattern and a lag column without the target's name
C10_Witness ==
    /\ DecomposedOk
    /\ \E c \in FeatureCols : Search(TREND_REGEX, c) /\ Search(LAG_REGEX, c)
    /\ {"autoregression", "lagged_regressor"} \subseteq ColumnSet(ret.value.cols)
    /\ "trend" \notin ColumnSet(ret.value.cols)

\* ----------------------------------------------------- the plot claims
\* a finished call of plot_silverkite_components
Plotted == pc = "done" /\ args.op = "plot_silverkite_components"
\* the columns of the table given, and those left once trend_changepoints
\* is stripped
GivenColumns == Columns(args.components.cols)
PlotColumns == SelectSeq(GivenColumns, LAMBDA n : n # "trend_changepoints")
Requested == Set(args.names.list)

\* C5: with a names list, the call raises and yields no figure exactly when
\* no requested name is a column of the stripped table; with some requested
\* names present and some absent it warns of exactly the absent ones and
\* returns the figure of the present ones; with all present it does not warn
C5_NamesSelection ==
    (Plotted /\ ~IsNone(args.names)) =>
        LET present == Requested \cap Set(PlotColumns)
            absent == Requested \ Set(PlotColumns)
        IN /\ (ret.raised = NoMatchError /\ IsNone(ret.value)) <=> present = {}
           /\ ret.raised # "" <=> present = {}
           /\ (present # {} /\ absent # {}) =>
                 /\ ret.warned = {absent}
                 /\ ~IsNone(ret.value)
                 /\ Set(ret.value.panels) = present \cup {GivenColumns[2]}
           /\ (present # {} /\ absent = {}) => ret.warned = {}
\* a list with the stripped trend_changepoints column and a present name:
\* the figure is returned with a warning that names trend_changepoints
C5_Witness ==
    /\ Plotted /\ ~IsNone(args.names)
    /\ "trend_changepoints" \in Set(GivenColumns)
    /\ Requested = {"trend", "trend_changepoints"}
    /\ ret.warned = {{"trend_changepoints"}}
    /\ ret.value.panels = <<"y", "trend">>

\* C6: without a names list the panels are the columns of the table other
\* than the time column and trend_changepoints, in the table's order, and the
\* figure is 350 high per panel
C6_DefaultPanels ==
    (Plotted /\ IsNone(args.names)) =>
        LET shown == SelectSeq(GivenColumns,
                               LAMBDA n : n # GivenColumns[1] /\ n # "trend_changepoints")
        IN /\ ret.raised = ""
           /\ ret.value.panels = shown
           /\ ret.value.height = 350 * Len(shown)
\* a table with a trend_changepoints column plotted without a names list
C6_Witness ==
    /\ Plotted /\ IsNone(args.names)
    /\ "trend_changepoints" \in Set(GivenColumns)
    /\ Len(ret.value.panels) = Len(GivenColumns) - 2
    /\ Len(ret.value.panels) >= 3

\* C7: with a names list for which a figure is returned, the first panel is
\* the target-value column and the panels after it are the other requested
\* names that are table columns, in the table's column order
C7_Original ==
    (Plotted /\ ~IsNone(args.names) /\ ret.raised = "") =>
        /\ ret.value.panels[1] = GivenColumns[2]
        /\ Tail(ret.value.panels) =
              SelectSeq(PlotColumns, LAMBDA n : n \in Requested /\ n # GivenColumns[2])

\* C11: the panels of a returned figure hold no column name more than once,
\* so there are at most as many panels as distinct table columns selected
\* plus the target-value column
C11_Original ==
    (Plotted /\ ret.raised = "") =>
        LET panels == ret.value.panels
            selected == IF IsNone(args.names) THEN Set(Tail(PlotColumns))
                        ELSE Requested \cap Set(PlotColumns)
        IN /\ \A i, j \in 1..Len(panels) : panels[i] = panels[j] => i = j
           /\ Len(panels) <= Cardinality(selected \cup {GivenColumns[2]})

\* ---------------------------------------------------- the cache claims
\* the decomposition of a plot_components call completes: there is a model
\* with coef_, its weighted matrix is not empty and has the rows of
\* df_dropna, and time_col and value_col are columns of df_dropna
DecompositionCompletes(model_dict, tc, vc) ==
    /\ ~IsNone(model_dict)
    /\ model_dict.ml_model.has_coef
    /\ ~IsEmpty(XMatWeighted(model_dict))
    /\ XMatWeighted(model_dict).nrows = model_dict.df_dropna.nrows
    /\ {tc, vc} \subseteq DOMAIN model_dict.df_dropna.col
DecompositionErrors == {SetParamsError, LinearOnlyError, EmptyError, RowsError, KeyError}

\* C8: a plot_components call whose decomposition completes replaces the
\* cache by the full table of that decomposition, also when the plot then
\* fails; one that fails before or during the decomposition leaves the cache
\* as it was; summary leaves the components cache and plot_components the
\* model_summary cache as it was
C8_Step ==
    /\ args'.op = "summary" => components' = components
    /\ args'.op = "plot_components" =>
          /\ model_summary' = model_summary
          /\ ret'.raised \in DecompositionErrors
                <=> ~DecompositionCompletes(args'.model_dict, time_col, value_col)
          /\ ret'.raised \in DecompositionErrors => components' = components
          /\ ret'.raised \notin DecompositionErrors =>
                components' = [none |-> FALSE,
                               cols |-> ComponentsTable(args'.model_dict.df_dropna, time_col,
                                                        value_col, XMatWeighted(args'.model_dict))]
C8_CacheFrame == [][C8_Step]_vars
\* a plot_components call that failed on the row counts after an earlier call
\* had filled both caches
C8_Witness ==
    /\ args.op = "plot_components"
    /\ ret.raised = RowsError
    /\ ~IsNone(components)
    /\ ~IsNone(model_summary)
\* a plot_components call whose plot failed after its decomposition had
\* replaced the cache
C8_WitnessPlotFailed ==
    /\ args.op = "plot_components"
    /\ ret.raised = NoMatchError
    /\ ~IsNone(components)
    /\ "trend" \notin ColumnSet(components.cols)

====
